---- MODULE Spec2Model ----
(***************************************************************************)
(* A model of bkgoksel/bloom-spell: the Bloom-filter set of src/bloom.py   *)
(* (BloomFilterSet) and the spell checker built on it in src/spell.py      *)
(* (SpellChecker).  One filter object is followed through its life: it is  *)
(* constructed either directly or by SpellChecker.__init__, and is then    *)
(* added to and queried.  A string is a sequence of one-character strings. *)
(* Python's None is the empty set and a present optional value v is {v}.   *)
(***************************************************************************)
EXTENDS Integers, Sequences, FiniteSets

VARIABLES
    hash_seed,   \* the interpreter's hash randomisation, fixed for the process
    phase,       \* "new" before BloomFilterSet.__init__, then "ok" or "failed"
    args,        \* the arguments __init__ was called with (history)
    error,       \* the exception __init__ raised, "none" otherwise
    bit_width,   \* self._bit_width
    num_adds,    \* self._num_adds
    num_hashes,  \* self._num_hashes
    storage,     \* self._storage: [len, data], data holding the non-zero bytes
    added,       \* elements whose add call returned (history)
    calls,       \* number of add calls that returned (history)
    last_op,     \* the last call made on the filter or the checker,
    last_arg,    \* its argument,
    last_value,  \* the value it returned, tagged by its type: [bool], [int], [list],
                 \* [class] for a float, [none] for None,
    last_raised, \* and the exception it raised, "none" otherwise
    checker,     \* "none", or SpellChecker.__init__'s outcome "ok" / "failed"
    vocab_file,  \* the lines of the vocabulary file SpellChecker read (history)
    vocab_size   \* SpellChecker.vocab_size

vars == <<hash_seed, phase, args, error, bit_width, num_adds, num_hashes,
          storage, added, calls, last_op, last_arg, last_value, last_raised,
          checker, vocab_file, vocab_size>>

filter_vars == <<bit_width, num_adds, num_hashes, storage>>

(***************************************************************************)
(* Bounds of the model.                                                    *)
(***************************************************************************)
MaxAdds == 3        \* add calls made directly on a filter
MaxLines == 2       \* lines of a vocabulary file
MaxTextLen == 3     \* characters of a text given to spell_check

(***************************************************************************)
(* Strings.                                                                *)
(***************************************************************************)
Whitespace == {" "}
Chars == {"a", "b", "A", " "}

\* Strings over Chars of length up to n.
StringsUpTo(n) == UNION {[1..k -> Chars] : k \in 0..n}

\* The elements direct callers add and look up.
Elements == {<<"a">>, <<"b">>, <<"A">>, <<>>}

\* The lines a vocabulary file is made of (without the line terminator).
VocabLines == {<<"a">>, <<"A">>, <<" ", "b">>}

\* The hash seeds a process may run under.
HashSeeds == {0, 1}

\* The arguments tried at construction.
ByteSizes == {-1, 0, 1, 6}
EntryCounts == {-2, 0, 1, 5}
HashCounts == {-1, 0, 1, 3}
FilterSizes == {{}, {-1}, {0}, {1}}

(***************************************************************************)
(* Python's integer operators, on unbounded two's-complement integers.     *)
(***************************************************************************)
Abs(x) == IF x < 0 THEN -x ELSE x

Max2(x, y) == IF x > y THEN x ELSE y

Min2(x, y) == IF x < y THEN x ELSE y

\* x & y for y >= 0 (x \div 2 rounds down, as >> 1 does on a negative int).
RECURSIVE BitAnd(_, _)
BitAnd(x, y) ==
    IF y = 0 THEN 0
    ELSE (x % 2) * (y % 2) + 2 * BitAnd(x \div 2, y \div 2)

\* x | y for x, y >= 0.
RECURSIVE BitOr(_, _)
BitOr(x, y) ==
    IF x = 0 THEN y
    ELSE IF y = 0 THEN x
    ELSE Max2(x % 2, y % 2) + 2 * BitOr(x \div 2, y \div 2)

\* x << n and x >> n.
Shl(x, n) == x * (2 ^ n)

Shr(x, n) == x \div (2 ^ n)

(***************************************************************************)
(* Strings: str.strip, str.lower, str.split.                               *)
(***************************************************************************)
RECURSIVE lstrip(_)
lstrip(s) ==
    IF s # <<>> /\ Head(s) \in Whitespace THEN lstrip(Tail(s)) ELSE s

RECURSIVE rstrip(_)
rstrip(s) ==
    IF s # <<>> /\ s[Len(s)] \in Whitespace
    THEN rstrip(SubSeq(s, 1, Len(s) - 1))
    ELSE s

strip(s) == rstrip(lstrip(s))

lower_char(c) == IF c = "A" THEN "a" ELSE c

lower(s) == [i \in 1..Len(s) |-> lower_char(s[i])]

\* str.split(): the maximal runs of non-whitespace characters, in order.
\* cur is the run being read.
RECURSIVE split_from(_, _)
split_from(s, cur) ==
    IF s = <<>> THEN (IF cur = <<>> THEN <<>> ELSE <<cur>>)
    ELSE IF Head(s) \in Whitespace
         THEN (IF cur = <<>> THEN <<>> ELSE <<cur>>) \o split_from(Tail(s), <<>>)
         ELSE split_from(Tail(s), Append(cur, Head(s)))

split(s) == split_from(s, <<>>)

(***************************************************************************)
(* The built-in hash().  A 32-bit interpreter is modelled: hash values are *)
(* signed 32-bit integers.  The value of a string depends on the process's *)
(* hash seed; equal strings hash equally within a process.                 *)
(***************************************************************************)
sys_maxsize == 2147483647

HashValues ==
    << 0, 1, -2, 65543, 196613, 2147483647, -2147483647 - 1, -65531, 458759 >>

CharCode(c) == IF c = "a" THEN 1 ELSE IF c = "b" THEN 2 ELSE IF c = "A" THEN 3 ELSE 4

RECURSIVE StringCode(_)
StringCode(s) ==
    IF s = <<>> THEN 0
    ELSE 5 * StringCode(SubSeq(s, 1, Len(s) - 1)) + CharCode(s[Len(s)])

hash(element) ==
    HashValues[((2 * hash_seed + StringCode(element)) % Len(HashValues)) + 1]

(***************************************************************************)
(* BloomFilterSet: class constants and __init__.                           *)
(***************************************************************************)
MIN_NUM_HASHES == 3
MAX_NUM_HASHES == 32
DEFAULT_BYTE_SIZE == 1048576

word_size == IF sys_maxsize \div 65536 >= 65536 THEN 64 ELSE 32

right_mask == (2 ^ (word_size \div 2)) - 1

left_mask == Shl((2 ^ ((word_size \div 2) - 1)) - 1, word_size \div 2)

\* math.log(2) as a fraction.  No fraction with a denominator below 2291
\* lies between LN2_NUM / LN2_DEN and ln 2, so the floor below is the
\* floor of ln(2) * m / n for every m and n whose products are formed here.
LN2_NUM == 693147
LN2_DEN == 1000000

\* math.floor(math.log(2) * m / n) for n = num / den, num # 0, den > 0.
\* When m / n is 48 or more the estimate is beyond MAX_NUM_HASHES (below
\* -MAX_NUM_HASHES for a negative n) and the products would leave TLC's
\* integers: the operator then gives 33 (-34), which min() and max() treat
\* as they treat every such value.
floor_estimate(m, num, den) ==
    IF (m * den) \div Abs(num) >= 48
    THEN (IF num > 0 THEN 33 ELSE -34)
    ELSE IF num > 0
         THEN (LN2_NUM * m * den) \div (LN2_DEN * num)
         ELSE (-(LN2_NUM * m * den)) \div (LN2_DEN * (-num))

\* The estimate used as it is, without the clamp.
optimal_num_hashes_unclamped(m, num, den) == floor_estimate(m, num, den)

\* Lines 67-75: the clamped optimal number of hash functions.
optimal_num_hashes(m, num, den) ==
    Max2(Min2(floor_estimate(m, num, den), MAX_NUM_HASHES), MIN_NUM_HASHES)

\* bytearray(n): n zero bytes; the non-zero bytes are kept in data.
bytearray(n) == [len |-> n, data |-> <<>>]

NoFilter ==
    [bit_width |-> 0, num_adds |-> 0, num_hashes |-> 0, storage |-> bytearray(0)]

Raise(exc) == [raised |-> exc, obj |-> NoFilter]

\* BloomFilterSet(byte_size, expected_number_of_entries, num_hashes): the
\* exception raised ("none" when the call returns) and the object built.
\* expected_number_of_entries is the number num / den.
BloomFilterSet(byte_size, expected_number_of_entries, new_num_hashes) ==
    IF expected_number_of_entries = {} /\ new_num_hashes = {}
    THEN Raise("ValueError")
    ELSE IF expected_number_of_entries # {} /\ new_num_hashes # {}
    THEN Raise("ValueError")
    ELSE LET m == byte_size * 8 IN
         IF m \div 8 < 0
         THEN Raise("ValueError")          \* bytearray(negative count)
         ELSE IF expected_number_of_entries # {}
         THEN LET n == CHOOSE v \in expected_number_of_entries : TRUE IN
              IF n[1] = 0
              THEN Raise("ZeroDivisionError")
              ELSE [raised |-> "none",
                    obj |-> [bit_width |-> m, num_adds |-> 0,
                             num_hashes |-> optimal_num_hashes(m, n[1], n[2]),
                             storage |-> bytearray(m \div 8)]]
         ELSE [raised |-> "none",
               obj |-> [bit_width |-> m, num_adds |-> 0,
                        num_hashes |-> CHOOSE v \in new_num_hashes : TRUE,
                        storage |-> bytearray(m \div 8)]]

(***************************************************************************)
(* BloomFilterSet: the bit store and the hash scheme, on a filter f.       *)
(***************************************************************************)
\* self._storage[i], for i in range.
ByteAt(st, i) == IF i \in DOMAIN st.data THEN st.data[i] ELSE 0

\* An index a bytearray of this length accepts (negative ones count from
\* the end).
InRange(st, i) == -st.len <= i /\ i < st.len

Norm(st, i) == IF i < 0 THEN i + st.len ELSE i

\* self._storage[i] = b
PutByte(st, i, b) ==
    [st EXCEPT !.data =
        [j \in (DOMAIN st.data) \cup {i} |-> IF j = i THEN b ELSE st.data[j]]]

\* _set_bit assigning the mask (=) where the code ors it in (|=).
set_bit_assign(st, idx) ==
    PutByte(st, Norm(st, idx \div 8), Shl(1, idx % 8))

\* _set_bit toggling the bit (^=) where the code sets it (|=).
set_bit_toggle(st, idx) ==
    LET b == ByteAt(st, Norm(st, idx \div 8))
        mask == Shl(1, idx % 8)
    IN  PutByte(st, Norm(st, idx \div 8),
                IF BitAnd(b, mask) # 0 THEN b - mask ELSE b + mask)

\* _set_bit(idx): the storage afterwards (idx // 8 in range).
set_bit(st, idx) ==
    LET byte_idx_to_modify == Norm(st, idx \div 8)
        bit_idx_to_modify == idx % 8
    IN  PutByte(st, byte_idx_to_modify,
                BitOr(ByteAt(st, byte_idx_to_modify), Shl(1, bit_idx_to_modify)))

\* _check_bit(idx) (idx // 8 in range).
check_bit(st, idx) ==
    LET byte_idx_to_modify == Norm(st, idx \div 8)
        bit_idx_to_modify == idx % 8
    IN  BitAnd(ByteAt(st, byte_idx_to_modify), Shl(1, bit_idx_to_modify)) # 0

\* The two halves _hash takes of a hash value (lines 103 and 105).
left_hash(full_hash) == Shr(BitAnd(full_hash, left_mask), word_size \div 2)

right_hash(full_hash) == BitAnd(full_hash, right_mask)

\* One probe position of _hash (line 108); m, the bit width, is not 0.
probe(left, right, hash_idx, m) == (left + hash_idx * right) % m

\* range(self._num_hashes), 1-based: empty when num_hashes <= 0.
HashIdxs(f) == 1..f.num_hashes

\* _hash(element) raises ZeroDivisionError when a position is computed
\* modulo a zero bit width; otherwise it returns the tuple of positions.
hash_raises(f) == f.num_hashes >= 1 /\ f.bit_width = 0

hashes(f, element) ==
    LET full_hash == hash(element)
        left == left_hash(full_hash)
        right == right_hash(full_hash)
    IN  [i \in HashIdxs(f) |-> probe(left, right, i - 1, f.bit_width)]

\* The for loop of add over the tuple hs from position i on: the storage it
\* leaves and the exception that ended it.
RECURSIVE set_bits(_, _, _)
set_bits(st, hs, i) ==
    IF i > Len(hs) THEN [storage |-> st, raised |-> "none"]
    ELSE IF ~InRange(st, hs[i] \div 8) THEN [storage |-> st, raised |-> "IndexError"]
    ELSE set_bits(set_bit(st, hs[i]), hs, i + 1)

\* add counting an element only when it set a new bit.
add_counting_new_bits(f, element) ==
    IF hash_raises(f) THEN [obj |-> f, raised |-> "ZeroDivisionError"]
    ELSE LET r == set_bits(f.storage, hashes(f, element), 1) IN
         [obj |-> [f EXCEPT !.storage = r.storage,
                            !.num_adds = IF r.storage = f.storage THEN @ ELSE @ + 1],
          raised |-> r.raised]

\* add(element): the filter afterwards and the exception raised.
add(f, element) ==
    IF hash_raises(f) THEN [obj |-> f, raised |-> "ZeroDivisionError"]
    ELSE LET r == set_bits(f.storage, hashes(f, element), 1) IN
         IF r.raised # "none"
         THEN [obj |-> [f EXCEPT !.storage = r.storage], raised |-> r.raised]
         ELSE [obj |-> [f EXCEPT !.storage = r.storage, !.num_adds = @ + 1],
               raised |-> "none"]

\* element in filter: all() stops at the first unset bit, and raises
\* IndexError at a position outside the storage it reaches before that.
RECURSIVE all_bits(_, _, _)
all_bits(st, hs, i) ==
    IF i > Len(hs) THEN [value |-> TRUE, raised |-> "none"]
    ELSE IF ~InRange(st, hs[i] \div 8) THEN [value |-> FALSE, raised |-> "IndexError"]
    ELSE IF ~check_bit(st, hs[i]) THEN [value |-> FALSE, raised |-> "none"]
    ELSE all_bits(st, hs, i + 1)

contains(f, element) ==
    IF hash_raises(f) THEN [value |-> FALSE, raised |-> "ZeroDivisionError"]
    ELSE all_bits(f.storage, hashes(f, element), 1)

\* The size property.
size(f) == f.num_adds

\* The false_positive_prob property,
\* (1 - e ** ((-1 * num_hashes * num_adds) / bit_width)) ** num_hashes.
\* The float it returns is modelled by its class: "zero" and "one" are
\* exactly 0.0 and 1.0, "in[0,1]" is a float of that interval (positive
\* load, positive hash count) and "other" any float (positive load,
\* negative hash count).  0.0 ** 0 is 1.0 and 0.0 to a negative power
\* raises.
false_positive_prob(f) ==
    IF f.bit_width = 0
    THEN [value |-> "none", raised |-> "ZeroDivisionError"]
    ELSE IF f.num_hashes = 0
    THEN [value |-> "one", raised |-> "none"]
    ELSE IF f.num_hashes * f.num_adds = 0
    THEN (IF f.num_hashes > 0
          THEN [value |-> "zero", raised |-> "none"]
          ELSE [value |-> "none", raised |-> "ZeroDivisionError"])
    ELSE IF f.num_hashes > 0
    THEN [value |-> "in[0,1]", raised |-> "none"]
    ELSE [value |-> "other", raised |-> "none"]

(***************************************************************************)
(* SpellChecker.                                                           *)
(***************************************************************************)
\* vocab_file.tell() at the end of the file: every line and its terminator.
RECURSIVE file_size(_)
file_size(lines) ==
    IF lines = <<>> THEN 0 ELSE Len(Head(lines)) + 1 + file_size(Tail(lines))

\* The loop of lines 45-47 from line i on: the filter and the count it
\* leaves, and the exception that ended it.
RECURSIVE load(_, _, _, _)
load(f, lines, i, count) ==
    IF i > Len(lines) THEN [obj |-> f, vocab_size |-> count, raised |-> "none"]
    ELSE LET r == add(f, strip(lines[i])) IN
         IF r.raised # "none"
         THEN [obj |-> r.obj, vocab_size |-> count, raised |-> r.raised]
         ELSE load(r.obj, lines, i + 1, count + 1)

\* The arguments SpellChecker.__init__ gives BloomFilterSet: num_words is
\* file_size / 8, and a filter size of None or 0 selects the default.
spell_args(lines, filter_size_bytes) ==
    [byte_size |-> IF filter_size_bytes # {} /\ filter_size_bytes # {0}
                   THEN CHOOSE v \in filter_size_bytes : TRUE
                   ELSE DEFAULT_BYTE_SIZE,
     expected_number_of_entries |-> {<<file_size(lines), 8>>},
     num_hashes |-> {}]

\* SpellChecker(vocab_file_path, filter_size_bytes) on a file of these lines.
SpellChecker(lines, filter_size_bytes) ==
    LET a == spell_args(lines, filter_size_bytes)
        c == BloomFilterSet(a.byte_size, a.expected_number_of_entries, a.num_hashes)
    IN  IF c.raised # "none"
        THEN [obj |-> c.obj, vocab_size |-> 0, raised |-> c.raised]
        ELSE load(c.obj, lines, 1, 0)

\* spell_check looking the tokens up as they are written, not lower-cased.
spell_check_as_written(f, text) ==
    LET words == split(text) IN
    [value |-> [i \in 1..Len(words) |-> ~contains(f, words[i]).value],
     raised |-> "none"]

\* spell_check(text) on the vocabulary filter f.
spell_check(f, text) ==
    LET words == split(text)
        r == [i \in 1..Len(words) |-> contains(f, lower(words[i]))]
    IN  IF \E i \in 1..Len(words) : r[i].raised # "none"
        THEN [value |-> <<>>,
              raised |-> r[CHOOSE i \in 1..Len(words) :
                             /\ r[i].raised # "none"
                             /\ \A j \in 1..(i - 1) : r[j].raised = "none"].raised]
        ELSE [value |-> [i \in 1..Len(words) |-> ~r[i].value], raised |-> "none"]

(***************************************************************************)
(* The state machine.                                                      *)
(***************************************************************************)
Self ==
    [bit_width |-> bit_width, num_adds |-> num_adds,
     num_hashes |-> num_hashes, storage |-> storage]

\* A call returns (or raises): what the caller sees of it.
Returns(op, arg, value, raised) ==
    /\ last_op' = op
    /\ last_arg' = arg
    /\ last_value' = value
    /\ last_raised' = raised

\* The object is as its constructor or an add left it.  A query changes no
\* field of the object, so a call made after a query reaches the state the
\* same call reaches without it: calls are taken from these states only.
AtRest == last_op \in {"init", "add", "spell_init"}

Init ==
    /\ hash_seed \in HashSeeds
    /\ phase = "new"
    /\ args = [byte_size |-> 0, expected_number_of_entries |-> {}, num_hashes |-> {}]
    /\ error = "none"
    /\ bit_width = 0
    /\ num_adds = 0
    /\ num_hashes = 0
    /\ storage = bytearray(0)
    /\ added = {}
    /\ calls = 0
    /\ last_op = "none"
    /\ last_arg = <<>>
    /\ last_value = [none |-> TRUE]
    /\ last_raised = "none"
    /\ checker = "none"
    /\ vocab_file = <<>>
    /\ vocab_size = 0

\* The filter's fields after a call that left the object f.
Becomes(f) ==
    /\ bit_width' = f.bit_width
    /\ num_adds' = f.num_adds
    /\ num_hashes' = f.num_hashes
    /\ storage' = f.storage

\* bloom_set = BloomFilterSet(byte_size=..., expected_number_of_entries=...,
\* num_hashes=...)
Construct(byte_size, expected_number_of_entries, new_num_hashes) ==
    /\ phase = "new"
    /\ LET c == BloomFilterSet(byte_size, expected_number_of_entries, new_num_hashes) IN
       /\ phase' = IF c.raised = "none" THEN "ok" ELSE "failed"
       /\ error' = c.raised
       /\ Becomes(c.obj)
       /\ Returns("init", <<>>, [none |-> TRUE], c.raised)
    /\ args' = [byte_size |-> byte_size,
                expected_number_of_entries |-> expected_number_of_entries,
                num_hashes |-> new_num_hashes]
    /\ UNCHANGED <<hash_seed, added, calls, checker, vocab_file, vocab_size>>

\* bloom_set.add(element)
Add(element) ==
    /\ phase = "ok"
    /\ AtRest
    /\ checker = "none"
    /\ num_adds < MaxAdds
    /\ LET r == add(Self, element) IN
       /\ Becomes(r.obj)
       /\ added' = IF r.raised = "none" THEN added \cup {element} ELSE added
       /\ calls' = IF r.raised = "none" THEN calls + 1 ELSE calls
       /\ Returns("add", element, [none |-> TRUE], r.raised)
    /\ UNCHANGED <<hash_seed, phase, args, error, checker, vocab_file, vocab_size>>

\* element in bloom_set
Contains(element) ==
    /\ phase = "ok"
    /\ AtRest
    /\ LET r == contains(Self, element) IN
       Returns("contains", element, [bool |-> r.value], r.raised)
    /\ UNCHANGED <<hash_seed, phase, args, error, filter_vars, added, calls,
                   checker, vocab_file, vocab_size>>

\* bloom_set.size
Size ==
    /\ phase = "ok"
    /\ AtRest
    /\ Returns("size", <<>>, [int |-> size(Self)], "none")
    /\ UNCHANGED <<hash_seed, phase, args, error, filter_vars, added, calls,
                   checker, vocab_file, vocab_size>>

\* bloom_set.false_positive_prob; spell.false_positive_prob returns that of
\* its filter.
FalsePositiveProb ==
    /\ phase = "ok"
    /\ AtRest
    /\ LET r == false_positive_prob(Self) IN
       Returns("false_positive_prob", <<>>, [class |-> r.value], r.raised)
    /\ UNCHANGED <<hash_seed, phase, args, error, filter_vars, added, calls,
                   checker, vocab_file, vocab_size>>

\* spell = SpellChecker(path, filter_size_bytes), the file holding lines.
SpellCheckerInit(lines, filter_size_bytes) ==
    /\ phase = "new"
    /\ LET r == SpellChecker(lines, filter_size_bytes) IN
       /\ phase' = IF r.raised = "none" THEN "ok" ELSE "failed"
       /\ checker' = IF r.raised = "none" THEN "ok" ELSE "failed"
       /\ error' = r.raised
       /\ Becomes(r.obj)
       /\ vocab_size' = r.vocab_size
       /\ added' = IF r.raised = "none"
                   THEN {strip(lines[i]) : i \in 1..Len(lines)}
                   ELSE {}
       /\ calls' = IF r.raised = "none" THEN Len(lines) ELSE 0
       /\ Returns("spell_init", <<>>, [none |-> TRUE], r.raised)
    /\ args' = spell_args(lines, filter_size_bytes)
    /\ vocab_file' = lines
    /\ UNCHANGED hash_seed

\* word in spell
SpellContains(word) ==
    /\ checker = "ok"
    /\ AtRest
    /\ LET r == contains(Self, word) IN
       Returns("spell_contains", word, [bool |-> r.value], r.raised)
    /\ UNCHANGED <<hash_seed, phase, args, error, filter_vars, added, calls,
                   checker, vocab_file, vocab_size>>

\* len(spell)
SpellLen ==
    /\ checker = "ok"
    /\ AtRest
    /\ Returns("spell_len", <<>>, [int |-> vocab_size], "none")
    /\ UNCHANGED <<hash_seed, phase, args, error, filter_vars, added, calls,
                   checker, vocab_file, vocab_size>>

\* spell.spell_check(text)
SpellCheck(text) ==
    /\ checker = "ok"
    /\ AtRest
    /\ LET r == spell_check(Self, text) IN
       Returns("spell_check", text, [list |-> r.value], r.raised)
    /\ UNCHANGED <<hash_seed, phase, args, error, filter_vars, added, calls,
                   checker, vocab_file, vocab_size>>

\* The vocabulary files read: up to MaxLines lines of VocabLines.
VocabFiles == UNION {[1..k -> VocabLines] : k \in 0..MaxLines}

\* The texts checked.
Texts == StringsUpTo(MaxTextLen)

\* A filter constructed and used directly.
Next ==
    \/ \E b \in ByteSizes, n \in {{}} \cup {{<<v, 1>>} : v \in EntryCounts},
          k \in {{}} \cup {{v} : v \in HashCounts} : Construct(b, n, k)
    \/ \E e \in Elements : Add(e)
    \/ \E e \in Elements : Contains(e)
    \/ Size
    \/ FalsePositiveProb

Spec == Init /\ [][Next]_vars

\* A spell checker and the filter it owns.
SpellNext ==
    \/ \E lines \in VocabFiles, fsb \in FilterSizes : SpellCheckerInit(lines, fsb)
    \/ \E w \in Elements : SpellContains(w)
    \/ SpellLen
    \/ \E text \in Texts : SpellCheck(text)
    \/ FalsePositiveProb

SpellSpec == Init /\ [][SpellNext]_vars

(***************************************************************************)
(* The claims.                                                             *)
(***************************************************************************)
\* C1. No false negatives: in every state of a filter, every element whose
\* add call has returned is reported contained, whatever was added since;
\* and every membership test made on such an element returned True.
NoFalseNegatives ==
    phase = "ok" =>
        /\ \A x \in added : contains(Self, x) = [value |-> TRUE, raised |-> "none"]
        /\ (last_op = "contains" /\ last_arg \in added) =>
               (last_raised = "none" /\ last_value.bool = TRUE)

\* A membership test of an added element answered True after another element
\* was added too, on a filter that still reports some element as absent.
NoFalseNegativesWitness ==
    /\ phase = "ok"
    /\ checker = "none"
    /\ last_op = "contains"
    /\ last_arg \in added
    /\ last_value.bool = TRUE
    /\ Cardinality(added) >= 2
    /\ \E y \in Elements \ added : contains(Self, y).value = FALSE

\* C2. Insertion count: size is 0 on a newly constructed filter and equals
\* the number of add calls that have returned, duplicates included.
InsertionCount ==
    phase = "ok" =>
        /\ size(Self) = calls
        /\ last_op = "init" => size(Self) = 0
        /\ last_op = "size" => last_value.int = calls

\* size answered 3 after three adds of one and the same element.
InsertionCountWitness ==
    /\ phase = "ok"
    /\ last_op = "size"
    /\ last_value.int = 3
    /\ Cardinality(added) = 1

ExactlyOneGiven ==
    (args.expected_number_of_entries = {}) # (args.num_hashes = {})

\* C3. Parameter exclusivity: construction with both or with neither of
\* num_hashes and expected_number_of_entries fails and leaves no filter;
\* construction with exactly one of them (and a positive byte size)
\* succeeds, whatever the value of that one.
ParameterExclusivity ==
    (last_op = "init") =>
        /\ ~ExactlyOneGiven => (phase = "failed" /\ Self = NoFilter)
        /\ (ExactlyOneGiven /\ args.byte_size > 0) => phase = "ok"

\* The estimate of the claim, floor(ln(2) * m / n) clamped to [3, 32], stated
\* by its bounds: k is the clamped floor of a / b (b > 0) exactly when
\* k = 3 and a < 4b, or k = 32 and a >= 32b, or 3 < k < 32 and
\* kb <= a < (k + 1)b.
IsClampedFloor(k, a, b) ==
    /\ k \in MIN_NUM_HASHES..MAX_NUM_HASHES
    /\ k > MIN_NUM_HASHES => k * b <= a
    /\ k < MAX_NUM_HASHES => a < (k + 1) * b

\* C4. Hash-count clamping: a filter constructed from
\* expected_number_of_entries n = num / den with bit width m = byte_size * 8
\* has num_hashes = floor(ln(2) * m / n) clamped to [3, 32].  (When m / n is
\* 48 or more, ln(2) * m / n is above 33, or below -33 for a negative n.)
HashCountClamping ==
    (phase = "ok" /\ args.expected_number_of_entries # {}) =>
        LET n == CHOOSE v \in args.expected_number_of_entries : TRUE
            m == args.byte_size * 8
        IN  /\ bit_width = m
            /\ IF (m * n[2]) \div Abs(n[1]) >= 48
               THEN num_hashes = (IF n[1] > 0 THEN MAX_NUM_HASHES ELSE MIN_NUM_HASHES)
               ELSE IF n[1] > 0
               THEN IsClampedFloor(num_hashes, LN2_NUM * m * n[2], LN2_DEN * n[1])
               ELSE IsClampedFloor(num_hashes, -(LN2_NUM * m * n[2]), LN2_DEN * (-n[1]))

\* A filter of 48 bits for one expected entry: the estimate, 33, is cut to 32.
HashCountClampingWitness ==
    /\ phase = "ok"
    /\ checker = "none"
    /\ args.expected_number_of_entries = {<<1, 1>>}
    /\ bit_width = 48
    /\ num_hashes = MAX_NUM_HASHES

\* The whitespace-delimited tokens of a text, by position: a token starts
\* where a non-whitespace character follows whitespace or opens the text, and
\* runs to the last character before the next whitespace.
TokenStarts(text) ==
    {i \in 1..Len(text) :
        text[i] \notin Whitespace /\ (i = 1 \/ text[i - 1] \in Whitespace)}

TokenEnd(text, i) ==
    CHOOSE j \in i..Len(text) :
        /\ \A k \in i..j : text[k] \notin Whitespace
        /\ (j = Len(text) \/ text[j + 1] \in Whitespace)

NthStart(text, n) ==
    CHOOSE i \in TokenStarts(text) :
        Cardinality({j \in TokenStarts(text) : j <= i}) = n

Token(text, n) == SubSeq(text, NthStart(text, n), TokenEnd(text, NthStart(text, n)))

NumTokens(text) == Cardinality(TokenStarts(text))

\* C5, as claimed: spell_check reports False for every token of the text
\* that was loaded from the vocabulary source.
LoadedTokensReportedFalse ==
    (checker = "ok" /\ last_op = "spell_check" /\ last_raised = "none") =>
        \A n \in 1..NumTokens(last_arg) :
            (n <= Len(last_value.list) /\ Token(last_arg, n) \in added) =>
                last_value.list[n] = FALSE

\* C5, amended: spell_check(text) returns one boolean per whitespace-
\* delimited token of text, in the order of the tokens, entry n being True
\* exactly when the lower-cased n-th token is not contained in the vocabulary
\* filter; so every token whose lower-cased form is a (stripped) line loaded
\* from the vocabulary source is reported False.
SpellCheckResult ==
    (checker = "ok" /\ last_op = "spell_check") =>
        /\ last_raised = "none"
        /\ Len(last_value.list) = NumTokens(last_arg)
        /\ \A n \in 1..NumTokens(last_arg) :
              /\ last_value.list[n] = ~contains(Self, lower(Token(last_arg, n))).value
              /\ lower(Token(last_arg, n)) \in added => last_value.list[n] = FALSE

\* A text of two tokens, the first written in upper case and found in the
\* vocabulary once lower-cased, the second not found.
SpellCheckResultWitness ==
    /\ checker = "ok"
    /\ last_op = "spell_check"
    /\ last_arg = <<"A", " ", "b">>
    /\ <<"a">> \in added
    /\ last_value.list = <<FALSE, TRUE>>

\* C6. Invalid storage size is rejected: construction with byte_size <= 0
\* fails, and no constructed filter has a bit width of zero or less.
InvalidSizeRejected ==
    /\ (last_op = "init" /\ args.byte_size <= 0) => phase = "failed"
    /\ phase = "ok" => bit_width > 0

\* C7. False-positive estimate at zero load: on a constructed filter with no
\* add yet, false_positive_prob returns 0 and raises nothing.
ZeroLoadEstimateIsZero ==
    (phase = "ok" /\ last_op = "false_positive_prob" /\ num_adds = 0) =>
        (last_raised = "none" /\ last_value.class = "zero")

\* Every bit set in byte b is set in byte c.
BitsKept(b, c) == BitAnd(c, b) = b

\* C8. Bits are never cleared: a filter is constructed with all bits 0 and
\* storage of bit_width / 8 bytes, and no call on it clears a bit that is
\* set or changes the storage length or the bit width.
BitsNeverCleared ==
    /\ [][(last_op' = "init" /\ phase' = "ok") =>
              (storage'.data = <<>> /\ storage'.len * 8 = bit_width')]_vars
    /\ [][phase = "ok" =>
              /\ storage'.len = storage.len
              /\ bit_width' = bit_width
              /\ \A i \in DOMAIN storage.data :
                    /\ i \in DOMAIN storage'.data
                    /\ BitsKept(storage.data[i], storage'.data[i])]_vars

\* Two different elements were added and a byte holds more than one bit.
BitsNeverClearedWitness ==
    /\ phase = "ok"
    /\ last_op = "add"
    /\ Cardinality(added) = 2
    /\ calls = 3
    /\ \E i \in DOMAIN storage.data : storage.data[i] \notin {1, 2, 4, 8, 16, 32, 64, 128}

\* C9. Probe indices are always in range: on every constructed filter _hash
\* yields exactly num_hashes positions for every element, each in
\* [0, bit_width), and no add or membership test fails.
ProbesInRange ==
    phase = "ok" =>
        /\ last_op \in {"add", "contains"} => last_raised = "none"
        /\ ~hash_raises(Self) =>
              \A e \in Elements :
                 /\ Cardinality(DOMAIN hashes(Self, e)) = Max2(num_hashes, 0)
                 /\ \A i \in DOMAIN hashes(Self, e) :
                       hashes(Self, e)[i] \in 0..(bit_width - 1)

\* C10. Hash count is at least 1 and fixed: every constructed filter has
\* num_hashes >= 1, so a filter nothing was added to reports no element as
\* contained for want of a bit to probe.
HashCountAtLeastOne ==
    phase = "ok" =>
        /\ num_hashes >= 1
        /\ calls = 0 => \A e \in Elements : contains(Self, e).value = FALSE

====
